---- MODULE Spec2Model ----
(***************************************************************************)
(* Audit-to-task workflow of the SEO agency platform.                      *)
(*                                                                         *)
(*   SpecSynth : create_tasks_from_audit (api/utils.py and                 *)
(*               execution/run_audit.py) applied to bounded findings.      *)
(*   SpecBatch : run_audit, the batch runner (execution/run_audit.py).     *)
(*   Spec      : create_audit / get_audit, the interactive HTTP handlers   *)
(*               (api/index.py), several requests interleaving at their    *)
(*               provider and store calls.                                 *)
(*   SpecLazy  : get_audit called over and over by one client, the status  *)
(*               checks that found the job not ready being counted.        *)
(*   SpecFlow  : both entry points on one store and one provider: a batch  *)
(*               run and one client of the HTTP handlers.                  *)
(*   SpecTenancy : login with its organization backfill, list_campaigns,   *)
(*               update_task (api/index.py) and the script admin_fix.py,   *)
(*               each request or script run being one step.                *)
(***************************************************************************)
EXTENDS Integers, Sequences, FiniteSets, Bags, TLC

VARIABLES
    audits,       \* store table 'audits': audit id -> row (exists = FALSE: no row yet)
    tasks,        \* store table 'tasks': the bag of its rows [row, audit], audit being
                  \* history: the audit whose finalize inserted the row (0: a batch run)
    job_ready,    \* provider: job id -> the crawl has finished
    job_pages,    \* provider: job id -> the findings the provider holds
    polls,        \* history: status checks answered "not ready", per observed audit
    req,          \* get_audit requests in flight: request id -> frame
    synth_in,     \* SpecSynth: arguments of create_tasks_from_audit
    synth_utils,  \* SpecSynth: outcome of the api/utils.py implementation
    synth_batch,  \* SpecSynth: outcome of the execution/run_audit.py implementation
    run,          \* SpecBatch: frame of one run_audit call
    create_resp,  \* the response of the last create_audit call
    faults,       \* history: some provider or store call failed or raised so far
    profiles,     \* SpecTenancy: table 'profiles': user id -> row
    organizations,\* SpecTenancy: table 'organizations': organization id -> owner_id
    campaigns,    \* SpecTenancy: table 'campaigns': campaign id -> organization_id
    task_table,   \* SpecTenancy: table 'tasks' by id: the columns update_task uses
    session,      \* SpecTenancy: session['user'] of each user's browser session
    response      \* SpecTenancy: the answer to the last request or script run

tenant_vars == <<profiles, organizations, campaigns, task_table, session, response>>

vars == <<audits, tasks, job_ready, job_pages, polls, req,
          synth_in, synth_utils, synth_batch, run, create_resp, faults, tenant_vars>>

\* No create_audit call was answered yet.
NoCreate == [code |-> 0, error |-> "", audit_id |-> 0]

IdleCreate == create_resp = NoCreate /\ faults = FALSE

\* No request was answered yet.
NoResponse == [handler |-> "none", user |-> "none", code |-> 0,
               campaigns |-> {}, queried |-> FALSE, task |-> "none"]

\* The tables and sessions of SpecTenancy while the other specifications run.
IdleTenancy ==
    /\ profiles = <<>>
    /\ organizations = <<>>
    /\ campaigns = <<>>
    /\ task_table = <<>>
    /\ session = <<>>
    /\ response = NoResponse

\* The history of failures after a call that failed (failed) or did not.
Fault(failed) == faults' = (faults \/ failed)

(***************************************************************************)
(* Bounds.                                                                 *)
(***************************************************************************)
MaxSmall == 2      \* short runs of pages have 0..MaxSmall pages
MaxOver == 1       \* long runs have up to ChecklistLimit + MaxOver pages
MaxFailures == 1   \* task inserts that fail in one synthesizer call

(***************************************************************************)
(* Program constants.                                                      *)
(***************************************************************************)
ChecklistLimit == 50     \* urls[:50]
max_attempts == 60       \* run_audit: max_attempts = 60
FindingsLimit == 100     \* get_page_issues(task_id, limit=100)

Min(a, b) == IF a < b THEN a ELSE b

(***************************************************************************)
(* Issue classifier and task templates.                                    *)
(***************************************************************************)
Flags == {"no_title", "no_description", "no_h1", "slow_load", "low_content",
          "is_broken", "is_4xx", "is_5xx", "no_canonical"}

\* Faulty variant: the categories taken by falling priority.
CategoryOrderByPriority == <<"broken_pages", "missing_title", "slow_pages",
                             "missing_description", "missing_h1", "low_content",
                             "no_canonical">>

\* The keys of the 'issues' dict, in insertion order.
CategoryOrder == <<"missing_title", "missing_description", "missing_h1",
                   "slow_pages", "low_content", "broken_pages", "no_canonical">>

Categories == {CategoryOrder[i] : i \in 1..Len(CategoryOrder)}

\* A page is [url, has_issues, issues_null, keys, issues]: has_issues says
\* the page has the key 'issues', issues_null that its value is None; keys
\* are the flags that are keys of page['issues'] and issues those of them
\* whose value is truthy.
\* page_issues = page.get('issues', {}) and page_issues.get(flag):
Get(page, flag) == page.has_issues /\ flag \in page.keys /\ flag \in page.issues

\* Faulty variant: only the flag is_broken puts a page into broken_pages.
InCategoryOnlyIsBroken(page, cat) ==
    CASE cat = "missing_title"       -> Get(page, "no_title")
      [] cat = "missing_description" -> Get(page, "no_description")
      [] cat = "missing_h1"          -> Get(page, "no_h1")
      [] cat = "slow_pages"          -> Get(page, "slow_load")
      [] cat = "low_content"         -> Get(page, "low_content")
      [] cat = "broken_pages"        -> Get(page, "is_broken")
      [] cat = "no_canonical"        -> Get(page, "no_canonical")

\* The seven ifs of the grouping loop (ifs, not elifs: a page can be in
\* several categories).
InCategory(page, cat) ==
    CASE cat = "missing_title"       -> Get(page, "no_title")
      [] cat = "missing_description" -> Get(page, "no_description")
      [] cat = "missing_h1"          -> Get(page, "no_h1")
      [] cat = "slow_pages"          -> Get(page, "slow_load")
      [] cat = "low_content"         -> Get(page, "low_content")
      [] cat = "broken_pages"        -> \/ Get(page, "is_broken")
                                        \/ Get(page, "is_4xx")
                                        \/ Get(page, "is_5xx")
      [] cat = "no_canonical"        -> Get(page, "no_canonical")

\* Faulty variant: page['issues'] and page_issues[flag] instead of .get:
\* a missing key raises KeyError.
GroupingRaisesOnMissingKey(pages) ==
    \E i \in 1..Len(pages) :
        \/ pages[i].issues_null
        \/ ~pages[i].has_issues
        \/ pages[i].keys /= Flags

\* page_issues.get(...) on None raises AttributeError.
GroupingRaises(pages) == \E i \in 1..Len(pages) : pages[i].issues_null

\* issues[cat] after the grouping loop: the URLs of the pages of the
\* category, in page order.
UrlsOf(pages, cat) ==
    LET sel == SelectSeq(pages, LAMBDA p : InCategory(p, cat))
    IN  [i \in 1..Len(sel) |-> sel[i].url]

templates ==
    [missing_title |->
        [title |-> "Fix pages with missing title tags",
         description |-> "These pages have no title tag, which hurts SEO and CTR.",
         type |-> "technical", role |-> "optimization_specialist", priority |-> 2],
     missing_description |->
        [title |-> "Add meta descriptions",
         description |-> "These pages have no meta description.",
         type |-> "technical", role |-> "optimization_specialist", priority |-> 1],
     missing_h1 |->
        [title |-> "Add H1 headings",
         description |-> "These pages have no H1 tag.",
         type |-> "technical", role |-> "optimization_specialist", priority |-> 1],
     slow_pages |->
        [title |-> "Improve slow loading pages",
         description |-> "These pages take > 3 seconds to load.",
         type |-> "technical", role |-> "optimization_specialist", priority |-> 2],
     low_content |->
        [title |-> "Expand thin content pages",
         description |-> "These pages have < 300 words.",
         type |-> "content", role |-> "content_creator", priority |-> 1],
     broken_pages |->
        [title |-> "Fix broken pages (4xx/5xx errors)",
         description |-> "These pages return error status codes.",
         type |-> "technical", role |-> "optimization_specialist", priority |-> 3],
     no_canonical |->
        [title |-> "Add canonical tags",
         description |-> "These pages have no canonical URL specified.",
         type |-> "technical", role |-> "optimization_specialist", priority |-> 1]]

\* Faulty variant: the checklist without the [:50].
ChecklistUntruncated(urls) ==
    [i \in 1..Len(urls) |-> [item |-> urls[i], completed |-> FALSE]]

\* [{'item': url, 'completed': False} for url in urls[:50]]
Checklist(urls) ==
    [i \in 1..Min(Len(urls), ChecklistLimit) |->
        [item |-> urls[i], completed |-> FALSE]]

\* Faulty variant: the priority grows with the number of affected pages.
TaskDataPriorityByCount(issue_type, urls, campaign_id) ==
    [campaign_id   |-> campaign_id,
     type          |-> templates[issue_type].type,
     title         |-> [text |-> templates[issue_type].title, pages |-> Len(urls)],
     description   |-> templates[issue_type].description,
     checklist     |-> Checklist(urls),
     assigned_role |-> templates[issue_type].role,
     priority      |-> Len(urls),
     status        |-> "pending"]

\* Faulty variant: the title counts the entries of the checklist.
TaskDataCountsChecklist(issue_type, urls, campaign_id) ==
    [campaign_id   |-> campaign_id,
     type          |-> templates[issue_type].type,
     title         |-> [text |-> templates[issue_type].title,
                        pages |-> Len(Checklist(urls))],
     description   |-> templates[issue_type].description,
     checklist     |-> Checklist(urls),
     assigned_role |-> templates[issue_type].role,
     priority      |-> templates[issue_type].priority,
     status        |-> "pending"]

\* The title f"{title} ({len(urls)} pages)" is kept as its two parts.
TaskData(issue_type, urls, campaign_id) ==
    [campaign_id   |-> campaign_id,
     type          |-> templates[issue_type].type,
     title         |-> [text |-> templates[issue_type].title, pages |-> Len(urls)],
     description   |-> templates[issue_type].description,
     checklist     |-> Checklist(urls),
     assigned_role |-> templates[issue_type].role,
     priority      |-> templates[issue_type].priority,
     status        |-> "pending"]

\* The category a task row was made for (template titles are distinct).
CategoryOf(task) ==
    CHOOSE c \in Categories : templates[c].title = task.title.text

\* Faulty variant: the loop without 'if not urls: continue'.
SkipsNothing(urls) == FALSE

\* 'if not urls: continue'
SkipsCategory(urls) == urls = <<>>

\* An insert either stores the row and returns it ("ok") or raises ("error").
InsertOutcomes == {"ok", "error"}

NoResult == [called |-> FALSE, raised |-> FALSE, inserted |-> <<>>, created |-> <<>>]

(***************************************************************************)
(* The insert loop 'for issue_type, urls in issues.items()' from position  *)
(* k on.  outcome[cat] is what the store answers to the insert of cat;     *)
(* acc.inserted are the rows stored, acc.created the list 'created'.       *)
(***************************************************************************)
RECURSIVE UtilsLoop(_, _, _, _, _)
UtilsLoop(k, pages, campaign_id, outcome, acc) ==
    IF k > Len(CategoryOrder) THEN acc
    ELSE LET issue_type == CategoryOrder[k]
             urls == UrlsOf(pages, issue_type)
             task_data == TaskData(issue_type, urls, campaign_id)
         IN  IF SkipsCategory(urls)
             THEN UtilsLoop(k + 1, pages, campaign_id, outcome, acc)
             ELSE IF outcome[issue_type] = "ok"
             THEN UtilsLoop(k + 1, pages, campaign_id, outcome,
                     [acc EXCEPT !.inserted = Append(@, task_data),
                                 !.created = Append(@, task_data)])
             \* except Exception: print(...) and go on with the next category
             ELSE UtilsLoop(k + 1, pages, campaign_id, outcome, acc)

RECURSIVE BatchLoop(_, _, _, _, _)
BatchLoop(k, pages, campaign_id, outcome, acc) ==
    IF k > Len(CategoryOrder) THEN acc
    ELSE LET issue_type == CategoryOrder[k]
             urls == UrlsOf(pages, issue_type)
             task_data == TaskData(issue_type, urls, campaign_id)
         IN  IF SkipsCategory(urls)
             THEN BatchLoop(k + 1, pages, campaign_id, outcome, acc)
             ELSE IF outcome[issue_type] = "ok"
             THEN BatchLoop(k + 1, pages, campaign_id, outcome,
                     [acc EXCEPT !.inserted = Append(@, task_data),
                                 !.created = Append(@, task_data)])
             \* no try/except around the insert: the exception leaves the function
             ELSE [acc EXCEPT !.raised = TRUE, !.created = <<>>]

\* Faulty variant: the rows are inserted but 'created' is never appended to.
utils_forgets_created(pages, campaign_id, outcome) ==
    IF pages = <<>> THEN [NoResult EXCEPT !.called = TRUE]
    ELSE IF GroupingRaises(pages) THEN [NoResult EXCEPT !.called = TRUE, !.raised = TRUE]
    ELSE [UtilsLoop(1, pages, campaign_id, outcome, [NoResult EXCEPT !.called = TRUE])
             EXCEPT !.created = <<>>]

\* api/utils.py
utils_create_tasks_from_audit(pages, campaign_id, outcome) ==
    IF pages = <<>> THEN [NoResult EXCEPT !.called = TRUE]
    ELSE IF GroupingRaises(pages) THEN [NoResult EXCEPT !.called = TRUE, !.raised = TRUE]
    ELSE UtilsLoop(1, pages, campaign_id, outcome, [NoResult EXCEPT !.called = TRUE])

\* execution/run_audit.py
batch_create_tasks_from_audit(pages, campaign_id, outcome) ==
    IF GroupingRaises(pages) THEN [NoResult EXCEPT !.called = TRUE, !.raised = TRUE]
    ELSE BatchLoop(1, pages, campaign_id, outcome, [NoResult EXCEPT !.called = TRUE])

(***************************************************************************)
(* SpecSynth: the two implementations of create_tasks_from_audit applied   *)
(* to findings lists made of two kinds of page, in blocks or alternating:  *)
(* a run of the first kind, short or around the checklist limit, and a     *)
(* short run of the second.                                                *)
(***************************************************************************)
\* The 'issues' of a page: a dict with the given keys, the flags in truthy
\* being true and the other keys false.
Issues(keys, truthy) ==
    [has_issues |-> TRUE, issues_null |-> FALSE, keys |-> keys, issues |-> truthy]

\* 'issues': None, and a page without the key 'issues'.
NullIssues == [has_issues |-> TRUE, issues_null |-> TRUE, keys |-> {}, issues |-> {}]

MissingIssues == [has_issues |-> FALSE, issues_null |-> FALSE, keys |-> {}, issues |-> {}]

Profiles ==
    { Issues(Flags, {}),
      Issues({}, {}),
      MissingIssues,
      Issues(Flags, {"no_title", "is_4xx"}),
      Issues(Flags, {"is_broken", "is_4xx", "is_5xx", "slow_load"}),
      Issues(Flags, Flags),
      NullIssues }

RunLens == (0..MaxSmall) \cup ((ChecklistLimit - 1)..(ChecklistLimit + MaxOver))

\* na pages of kind a and nb pages of kind b; the URL of a page is its position.
GenPages(a, na, b, nb, alternate) ==
    [i \in 1..(na + nb) |->
        LET p == IF alternate THEN (IF i % 2 = 1 THEN a ELSE b)
                 ELSE (IF i <= na THEN a ELSE b)
        IN  [url |-> i, has_issues |-> p.has_issues, issues_null |-> p.issues_null,
             keys |-> p.keys, issues |-> p.issues]]

OutcomeMaps ==
    { [c \in Categories |-> IF c \in F THEN "error" ELSE "ok"] :
        F \in {G \in SUBSET Categories : Cardinality(G) <= MaxFailures} }

CampaignIds == {"camp1"}

IdleStore ==
    /\ audits = <<>>
    /\ tasks = EmptyBag
    /\ job_ready = <<>>
    /\ job_pages = <<>>
    /\ polls = <<>>
    /\ req = <<>>

IdleSynth ==
    /\ synth_in = [pages |-> <<>>, campaign_id |-> "camp1",
                   outcome |-> [c \in Categories |-> "ok"]]
    /\ synth_utils = NoResult
    /\ synth_batch = NoResult

IdleRun == run = [pc |-> "none"]

InitSynth ==
    /\ \E a \in Profiles, b \in Profiles, na \in RunLens, nb \in 0..MaxSmall,
          alternate \in BOOLEAN, o \in OutcomeMaps, c \in CampaignIds :
          synth_in = [pages |-> GenPages(a, na, b, nb, alternate),
                      campaign_id |-> c, outcome |-> o]
    /\ synth_utils = NoResult
    /\ synth_batch = NoResult
    /\ IdleStore
    /\ IdleRun
    /\ IdleCreate
    /\ IdleTenancy

CallUtils ==
    /\ ~synth_utils.called
    /\ synth_utils' = utils_create_tasks_from_audit(
                          synth_in.pages, synth_in.campaign_id, synth_in.outcome)
    /\ UNCHANGED <<audits, tasks, job_ready, job_pages, polls, req,
                   synth_in, synth_batch, run, create_resp, faults, tenant_vars>>

CallBatch ==
    /\ ~synth_batch.called
    /\ synth_batch' = batch_create_tasks_from_audit(
                          synth_in.pages, synth_in.campaign_id, synth_in.outcome)
    /\ UNCHANGED <<audits, tasks, job_ready, job_pages, polls, req,
                   synth_in, synth_utils, run, create_resp, faults, tenant_vars>>

NextSynth == CallUtils \/ CallBatch

SpecSynth == InitSynth /\ [][NextSynth]_vars

\* The categories the findings of the call put at least one URL in.
NonEmptyCategories(pages) == {c \in Categories : UrlsOf(pages, c) /= <<>>}

AllInsertsOk(outcome) == \A c \in Categories : outcome[c] = "ok"

SynthResults == {r \in {synth_utils, synth_batch} : r.called}

\* C2: with every insert succeeding, each implementation stores and returns
\* exactly one task per category with at least one URL and none for an empty
\* category: as many tasks as non-empty categories, at most seven.
C2_OneTaskPerNonEmptyCategory ==
    \A r \in SynthResults :
        (AllInsertsOk(synth_in.outcome) /\ ~r.raised) =>
            /\ r.created = r.inserted
            /\ Len(r.created) = Cardinality(NonEmptyCategories(synth_in.pages))
            /\ Len(r.created) <= 7
            /\ \A c \in Categories :
                  Cardinality({i \in 1..Len(r.created) : CategoryOf(r.created[i]) = c})
                    = IF c \in NonEmptyCategories(synth_in.pages) THEN 1 ELSE 0

C2_Witness ==
    /\ synth_utils.called /\ synth_batch.called
    /\ AllInsertsOk(synth_in.outcome)
    /\ Len(synth_utils.created) = 2
    /\ Len(synth_batch.created) = 2
    /\ Cardinality(NonEmptyCategories(synth_in.pages)) = 2

\* C3: the checklist of the task of a category with n URLs is the first
\* min(n, 50) of these URLs in page order, each not completed; no checklist
\* has more than 50 entries.
C3_ChecklistTruncated ==
    \A r \in SynthResults : \A i \in 1..Len(r.inserted) :
        LET t == r.inserted[i]
            urls == UrlsOf(synth_in.pages, CategoryOf(t))
            n == Len(urls)
        IN  /\ Len(t.checklist) = Min(n, 50)
            /\ Len(t.checklist) <= 50
            /\ \A j \in 1..Len(t.checklist) :
                  /\ t.checklist[j].item = urls[j]
                  /\ t.checklist[j].completed = FALSE

C3_Witness ==
    /\ synth_utils.called /\ synth_batch.called
    /\ \E i \in 1..Len(synth_utils.inserted) :
          /\ Len(UrlsOf(synth_in.pages, CategoryOf(synth_utils.inserted[i]))) > 50
          /\ Len(synth_utils.inserted[i].checklist) = 50
    /\ \E i \in 1..Len(synth_batch.inserted) :
          /\ Len(UrlsOf(synth_in.pages, CategoryOf(synth_batch.inserted[i]))) > 50
          /\ Len(synth_batch.inserted[i].checklist) = 50

\* C10: when the insert of one category fails, the inserts of the other
\* non-empty categories are still made and the call returns exactly the
\* rows whose insert succeeded, in both implementations.
C10_PartialFailureTolerant ==
    \A r \in SynthResults :
        ~GroupingRaises(synth_in.pages) =>
            /\ ~r.raised
            /\ r.created = r.inserted
            /\ {CategoryOf(r.inserted[i]) : i \in 1..Len(r.inserted)}
                 = {c \in NonEmptyCategories(synth_in.pages) : synth_in.outcome[c] = "ok"}

BrokenFlags == {"is_broken", "is_4xx", "is_5xx"}

\* The flag of each category that is filled from one flag.
FlagOf == [missing_title |-> "no_title", missing_description |-> "no_description",
           missing_h1 |-> "no_h1", slow_pages |-> "slow_load",
           low_content |-> "low_content", no_canonical |-> "no_canonical"]

\* The URLs (positions) of the pages that have a truthy flag of fs, each once.
UrlsWithAny(pages, fs) ==
    LET sel == SelectSeq(pages, LAMBDA p : \E f \in fs : Get(p, f))
    IN  [i \in 1..Len(sel) |-> sel[i].url]

\* The rows of result r that are of category c.
RowsOfCategory(r, c) == {i \in 1..Len(r.inserted) : CategoryOf(r.inserted[i]) = c}

\* C14: a page is in broken_pages iff at least one of is_broken, is_4xx,
\* is_5xx is set; it is there once even when several of them are set; and
\* being there does not keep it out of the other categories: the task of
\* every category counts all the pages that have its flag.
C14_BrokenPagesIsAnyOfThree ==
    /\ \A i \in 1..Len(synth_in.pages) :
          InCategory(synth_in.pages[i], "broken_pages")
             <=> (\E f \in BrokenFlags : Get(synth_in.pages[i], f))
    /\ \A r \in SynthResults :
          (~GroupingRaises(synth_in.pages) /\ AllInsertsOk(synth_in.outcome)) =>
             LET broken == UrlsWithAny(synth_in.pages, BrokenFlags)
             IN  /\ (RowsOfCategory(r, "broken_pages") /= {}) <=> (broken /= <<>>)
                 /\ \A i \in RowsOfCategory(r, "broken_pages") :
                       /\ r.inserted[i].title.pages = Len(broken)
                       /\ \A j \in 1..Len(r.inserted[i].checklist) :
                             r.inserted[i].checklist[j].item = broken[j]
                 /\ \A c \in DOMAIN FlagOf :
                       LET urls == UrlsWithAny(synth_in.pages, {FlagOf[c]})
                       IN  /\ (RowsOfCategory(r, c) /= {}) <=> (urls /= <<>>)
                           /\ \A i \in RowsOfCategory(r, c) :
                                 r.inserted[i].title.pages = Len(urls)

\* Pages with all three flags and slow_load, next to pages with is_4xx only
\* among the three: one broken_pages task counting each page once, and the
\* slow_pages task counting the slow ones.
C14_Witness ==
    /\ synth_utils.called /\ synth_batch.called
    /\ AllInsertsOk(synth_in.outcome)
    /\ \E i, j \in 1..Len(synth_in.pages) :
          /\ BrokenFlags \subseteq synth_in.pages[i].issues
          /\ synth_in.pages[j].issues \cap BrokenFlags = {"is_4xx"}
    /\ \E i \in RowsOfCategory(synth_utils, "broken_pages") :
          synth_utils.inserted[i].title.pages = Len(synth_in.pages)
    /\ RowsOfCategory(synth_batch, "slow_pages") /= {}
    /\ RowsOfCategory(synth_batch, "missing_title") /= {}

\* A page without any flag set: no 'issues' at all, or no key of it truthy.
Flagless(page) ==
    /\ ~page.issues_null
    /\ ~page.has_issues \/ (page.keys \cap page.issues) = {}

\* C15: a page with no flag set, with flags missing or with the whole
\* 'issues' mapping missing is put into no category and raises nothing; a
\* list of such pages only gives no task and no insert, whatever the store
\* would have answered.
C15_FlaglessPagesGiveNothing ==
    /\ \A i \in 1..Len(synth_in.pages) :
          Flagless(synth_in.pages[i]) =>
             \A c \in Categories : ~InCategory(synth_in.pages[i], c)
    /\ (\A i \in 1..Len(synth_in.pages) : ~synth_in.pages[i].issues_null)
          => ~GroupingRaises(synth_in.pages)
    /\ \A r \in SynthResults :
          (\A i \in 1..Len(synth_in.pages) : Flagless(synth_in.pages[i])) =>
             /\ ~r.raised
             /\ r.inserted = <<>>
             /\ r.created = <<>>

\* Both implementations were given pages without 'issues' and pages whose
\* 'issues' has no key, with a store that would have refused an insert.
C15_Witness ==
    /\ synth_utils.called /\ synth_batch.called
    /\ ~AllInsertsOk(synth_in.outcome)
    /\ \A i \in 1..Len(synth_in.pages) : Flagless(synth_in.pages[i])
    /\ \E i, j \in 1..Len(synth_in.pages) :
          /\ ~synth_in.pages[i].has_issues
          /\ synth_in.pages[j].has_issues /\ synth_in.pages[j].keys = {}
    /\ synth_utils.inserted = <<>> /\ ~synth_batch.raised

\* The position of a category in the declaration of the 'issues' dict.
DeclaredAt(c) ==
    CASE c = "missing_title" -> 1
      [] c = "missing_description" -> 2
      [] c = "missing_h1" -> 3
      [] c = "slow_pages" -> 4
      [] c = "low_content" -> 5
      [] c = "broken_pages" -> 6
      [] c = "no_canonical" -> 7

\* The rows of list are in the declared order of their categories.
InDeclaredOrder(list) ==
    \A i, j \in 1..Len(list) :
        i < j => DeclaredAt(CategoryOf(list[i])) < DeclaredAt(CategoryOf(list[j]))

\* C20: the tasks are inserted, and returned, in the fixed order
\* missing_title, missing_description, missing_h1, slow_pages, low_content,
\* broken_pages, no_canonical, whatever the order of the pages, the
\* priorities and the page counts.
C20_FixedEmissionOrder ==
    \A r \in SynthResults :
        /\ InDeclaredOrder(r.inserted)
        /\ InDeclaredOrder(r.created)

\* All seven tasks were returned by both implementations: priorities
\* 2,1,1,2,1,3,1 and page counts that are not in order either.
C20_Witness ==
    /\ synth_utils.called /\ synth_batch.called
    /\ Len(synth_utils.created) = 7 /\ Len(synth_batch.created) = 7
    /\ synth_utils.created[6].priority > synth_utils.created[1].priority
    /\ synth_utils.created[6].title.pages > synth_utils.created[1].title.pages
    /\ synth_utils.created[7].title.pages < synth_utils.created[6].title.pages

\* The priorities and roles of the reference templates.
ReferencePriority ==
    [missing_description |-> 1, missing_h1 |-> 1, no_canonical |-> 1, low_content |-> 1,
     slow_pages |-> 2, missing_title |-> 2, broken_pages |-> 3]

ReferenceRole ==
    [c \in Categories |->
        IF c = "low_content" THEN "content_creator" ELSE "optimization_specialist"]

\* C21: the priority and the assigned role of every task are the fixed
\* values of its category (1 for missing_description, missing_h1,
\* no_canonical and low_content, 2 for slow_pages and missing_title, 3 for
\* broken_pages, the highest), whatever the findings; the status of a new
\* task is 'pending'.
C21_StaticPriorityAndRole ==
    \A r \in SynthResults :
        \A i \in 1..Len(r.inserted) :
            LET t == r.inserted[i]
            IN  /\ t.priority = ReferencePriority[CategoryOf(t)]
                /\ t.assigned_role = ReferenceRole[CategoryOf(t)]
                /\ t.priority <= ReferencePriority["broken_pages"]
                /\ t.status = "pending"

\* Seven tasks from the batch implementation, the broken_pages one for more
\* than fifty pages with priority 3 and the low_content one for the content
\* creator.
C21_Witness ==
    /\ synth_batch.called
    /\ Len(synth_batch.inserted) = 7
    /\ \E i \in RowsOfCategory(synth_batch, "broken_pages") :
          /\ synth_batch.inserted[i].priority = 3
          /\ synth_batch.inserted[i].title.pages > ChecklistLimit
    /\ \E i \in RowsOfCategory(synth_batch, "low_content") :
          /\ synth_batch.inserted[i].priority = 1
          /\ synth_batch.inserted[i].assigned_role = "content_creator"

\* The flags that put a page into category c.
FlagsOfCategory(c) == IF c = "broken_pages" THEN BrokenFlags ELSE {FlagOf[c]}

\* The number of pages of the findings that are affected in category c.
Affected(pages, c) ==
    Cardinality({i \in 1..Len(pages) : \E f \in FlagsOfCategory(c) : Get(pages[i], f)})

\* C22: the page count in the title of a task is the number of URLs
\* affected in its category, not the length of the checklist: with n > 50
\* affected URLs the title says n pages and the checklist has 50 entries.
C22_TitleCountsAllPages ==
    \A r \in SynthResults :
        ~GroupingRaises(synth_in.pages) =>
            \A i \in 1..Len(r.inserted) :
                LET t == r.inserted[i]
                    n == Affected(synth_in.pages, CategoryOf(t))
                IN  /\ t.title.pages = n
                    /\ n > 50 => (t.title.pages > Len(t.checklist) /\ Len(t.checklist) = 50)
                    /\ n <= 50 => t.title.pages = Len(t.checklist)

\* A task of the batch implementation for 52 pages and one for 2 pages.
C22_Witness ==
    /\ synth_batch.called
    /\ \E i, j \in 1..Len(synth_batch.inserted) :
          /\ synth_batch.inserted[i].title.pages = 52
          /\ Len(synth_batch.inserted[i].checklist) = 50
          /\ synth_batch.inserted[j].title.pages = 2
          /\ Len(synth_batch.inserted[j].checklist) = 2

MaxRequests == 2   \* get_audit requests in flight at the same time
MaxTasks == 4      \* rows of the tasks table the interactive model follows

Req == 1..MaxRequests

\* The model follows one campaign and the one audit that is started for it:
\* the provider is given one crawl job, and the audit ids a client asks for
\* are the id of that audit (audits of other jobs share no row with it).
AuditIds == {1}

JobIds == {1}

\* A JSON mapping of metrics is a set of <<name, value>> pairs; the column
\* 'summary' of a row that was inserted without it is null.
NullSummary == [is_null |-> TRUE, items |-> {}]

SummaryOf(items) == [is_null |-> FALSE, items |-> items]

\* 'results': {} of a fresh row.
EmptyResults == [keys |-> {}, summary |-> SummaryOf({}), pages |-> <<>>]

NoRow == [campaign_id |-> "", type |-> "", status |-> "none", dataforseo_task_id |-> 0,
          results |-> EmptyResults, summary |-> NullSummary]

Page(url, issues) ==
    [url |-> url, has_issues |-> TRUE, issues_null |-> FALSE, keys |-> Flags,
     issues |-> issues]

\* Ten pages: three without a title, two answering 4xx, one of them both.
ExamplePages ==
    <<Page(1, {"no_title", "is_4xx"}), Page(2, {"no_title"}), Page(3, {"no_title"}),
      Page(4, {"is_4xx"}), Page(5, {}), Page(6, {}), Page(7, {}), Page(8, {}),
      Page(9, {}), Page(10, {})>>

\* The findings lists a crawl can end with: two categories that share a
\* page, no issue at all, and a page whose 'issues' is null.
ProviderFindings ==
    { ExamplePages,
      <<Page(1, {})>>,
      <<[url |-> 1, has_issues |-> TRUE, issues_null |-> TRUE, keys |-> {},
         issues |-> {}]>> }

\* Provider.summary(jobId): {success, summary} | {success=false, error}
ProviderSummary(job, ok) ==
    IF ok THEN [success |-> TRUE, has_summary |-> TRUE,
                summary |-> SummaryOf({<<"pages_crawled", Len(job_pages[job])>>}),
                error |-> ""]
    ELSE [success |-> FALSE, has_summary |-> FALSE, summary |-> SummaryOf({}),
          error |-> "summary error"]

\* Provider.findings(jobId, limit): {success, pages} | {success=false, error}
ProviderPages(job, limit, ok) ==
    IF ok THEN [success |-> TRUE, has_pages |-> TRUE,
                pages |-> SubSeq(job_pages[job], 1, Min(limit, Len(job_pages[job]))),
                error |-> ""]
    ELSE [success |-> FALSE, has_pages |-> FALSE, pages |-> <<>>,
          error |-> "findings error"]

NoFetch == [success |-> FALSE, has_summary |-> FALSE, summary |-> SummaryOf({}),
            error |-> "not fetched"]

NoPages == [success |-> FALSE, has_pages |-> FALSE, pages |-> <<>>,
            error |-> "not fetched"]

\* summary.get('summary', {}) and pages_result.get('pages', [])
SummaryGet(summary) == IF summary.has_summary THEN summary.summary ELSE SummaryOf({})

PagesGet(pages_result) == IF pages_result.has_pages THEN pages_result.pages ELSE <<>>

\* The crawl of job j finishes at the provider.
ProviderFinishes(j) ==
    /\ j \in 1..Len(job_ready)
    /\ ~job_ready[j]
    /\ job_ready' = [job_ready EXCEPT ![j] = TRUE]
    /\ UNCHANGED <<audits, tasks, job_pages, polls, req,
                   synth_in, synth_utils, synth_batch, run, create_resp, faults, tenant_vars>>

(***************************************************************************)
(* api/index.py: create_audit.                                             *)
(***************************************************************************)
\* Faulty variant: the row is written as 'pending'.
NewAuditRowPending(campaign_id, task_id) ==
    [campaign_id |-> campaign_id, type |-> "technical", status |-> "pending",
     dataforseo_task_id |-> task_id, results |-> EmptyResults,
     summary |-> NullSummary]

\* client.table('audits').insert({... 'status': 'crawling', 'results': {}})
NewAuditRow(campaign_id, task_id) ==
    [campaign_id |-> campaign_id, type |-> "technical", status |-> "crawling",
     dataforseo_task_id |-> task_id, results |-> EmptyResults,
     summary |-> NullSummary]

\* One POST /api/audits: campaign lookup, provider submit, insert of the row.
CreateAudit(campaign_id) ==
    /\ job_ready = <<>>
    /\ \E submit_ok \in BOOLEAN, insert \in InsertOutcomes, pages \in ProviderFindings :
          IF ~submit_ok
          THEN /\ create_resp' = [code |-> 500, audit_id |-> 0,
                                  error |-> "Failed to start audit: submit error"]
               /\ Fault(TRUE)
               /\ UNCHANGED <<audits, job_ready, job_pages>>
          ELSE /\ job_ready' = Append(job_ready, FALSE)
               /\ job_pages' = Append(job_pages, pages)
               /\ IF insert = "ok"
                  THEN /\ audits' = Append(audits,
                                       NewAuditRow(campaign_id, Len(job_ready) + 1))
                       /\ create_resp' = [code |-> 200, audit_id |-> Len(audits) + 1,
                                          error |-> ""]
                       /\ Fault(FALSE)
                  ELSE /\ create_resp' = [code |-> 500, audit_id |-> 0,
                                          error |-> "store error"]
                       /\ Fault(TRUE)
                       /\ UNCHANGED audits
    /\ UNCHANGED <<tasks, polls, req, synth_in, synth_utils, synth_batch, run, tenant_vars>>

(***************************************************************************)
(* api/index.py: get_audit, one step per store or provider call.           *)
(***************************************************************************)
NoResp == [code |-> 0, audit |-> NoRow]

\* The frame of a request: the locals of get_audit, whether the except of the
\* finalize ran (raised), whether its update was applied (finalized) and the
\* response.  A finished request keeps only audit_id, raised, finalized, resp.
IdleFrame == [pc |-> "idle", audit_id |-> 0, audit |-> NoRow, summary |-> NoFetch,
              pages_result |-> NoPages, k |-> 0, raised |-> FALSE,
              finalized |-> FALSE, resp |-> NoResp]

\* return jsonify({'audit': audit})
Respond(frame, audit) ==
    [IdleFrame EXCEPT !.pc = "done", !.audit_id = frame.audit_id,
                      !.raised = frame.raised, !.finalized = frame.finalized,
                      !.resp = [code |-> 200, audit |-> audit]]

\* Faulty variant: the lazy check without the test of the status.
ChecksAnyStatus(audit) == audit.dataforseo_task_id /= 0

\* if audit['status'] == 'crawling' and audit.get('dataforseo_task_id'):
NeedsLazyCheck(audit) == audit.status = "crawling" /\ audit.dataforseo_task_id /= 0

\* The select of the row; a missing row makes .single() raise: 500.
GetAuditSelect(r, a) ==
    /\ req[r].pc \in {"idle", "done"}
    /\ a \in AuditIds
    /\ IF a > Len(audits)
       THEN req' = [req EXCEPT ![r] =
                      [IdleFrame EXCEPT !.pc = "done", !.audit_id = a,
                                        !.resp = [code |-> 500, audit |-> NoRow]]]
       ELSE LET frame == [IdleFrame EXCEPT !.audit_id = a, !.audit = audits[a]]
            IN  req' = [req EXCEPT ![r] =
                          IF NeedsLazyCheck(audits[a])
                          THEN [frame EXCEPT !.pc = "status"]
                          ELSE Respond(frame, audits[a])]
    /\ UNCHANGED <<audits, tasks, job_ready, job_pages, polls,
                   synth_in, synth_utils, synth_batch, run, create_resp, faults, tenant_vars>>

\* status = get_audit_status(task_id); if status.get('ready'):
GetAuditStatus(r) ==
    /\ req[r].pc = "status"
    /\ LET a == req[r].audit_id
           ready == job_ready[req[r].audit.dataforseo_task_id]
       IN  IF ready
           THEN /\ req' = [req EXCEPT ![r].pc = "summary"]
                /\ UNCHANGED polls
           ELSE /\ req' = [req EXCEPT ![r] = Respond(@, @.audit)]
                /\ polls' = IF a \in DOMAIN polls
                            THEN [polls EXCEPT ![a] = Min(@ + 1, max_attempts)]
                            ELSE polls
    /\ UNCHANGED <<audits, tasks, job_ready, job_pages,
                   synth_in, synth_utils, synth_batch, run, create_resp, faults, tenant_vars>>

\* summary = get_audit_summary(task_id)
GetAuditSummary(r) ==
    /\ req[r].pc = "summary"
    /\ \E ok \in BOOLEAN :
          /\ Fault(~ok)
          /\ req' = [req EXCEPT ![r].pc = "pages",
                             ![r].summary = ProviderSummary(req[r].audit.dataforseo_task_id, ok)]
    /\ UNCHANGED <<audits, tasks, job_ready, job_pages, polls,
                   synth_in, synth_utils, synth_batch, run, create_resp, tenant_vars>>

\* pages_result = get_page_issues(task_id, limit=100)
GetAuditPages(r) ==
    /\ req[r].pc = "pages"
    /\ \E ok \in BOOLEAN :
          /\ Fault(~ok)
          /\ req' = [req EXCEPT ![r].pc = "tasks", ![r].k = 1,
                             ![r].pages_result =
                                ProviderPages(req[r].audit.dataforseo_task_id, FindingsLimit, ok)]
    /\ UNCHANGED <<audits, tasks, job_ready, job_pages, polls,
                   synth_in, synth_utils, synth_batch, run, create_resp, tenant_vars>>

\* The position of the next category from k on that gets an insert (0: none).
NextInsert(pages, k) ==
    LET S == {j \in k..Len(CategoryOrder) : ~SkipsCategory(UrlsOf(pages, CategoryOrder[j]))}
    IN  IF S = {} THEN 0 ELSE CHOOSE j \in S : \A i \in S : j <= i

\* Faulty variant: the except of the finalize sets the status to 'failed'.
FinalizeExceptMarksFailed(rows, a) == [rows EXCEPT ![a].status = "failed"]

\* except Exception as e: print(...)   (the row is not touched)
FinalizeExcept(rows, a) == rows

\* Faulty variant: without the inner try the exception reaches the outer
\* except: 500.
FinalizeReraises(frame) ==
    [IdleFrame EXCEPT !.pc = "done", !.audit_id = frame.audit_id, !.raised = TRUE,
                      !.resp = [code |-> 500, audit |-> NoRow]]

\* After the except of the finalize: return jsonify({'audit': audit}) with
\* the row as it was selected.
FinalizeExceptResponse(frame) == Respond([frame EXCEPT !.raised = TRUE], frame.audit)

\* create_tasks_from_audit raises while grouping: the except of the finalize.
GetAuditSynthRaises(r) ==
    /\ req[r].pc = "tasks"
    /\ GroupingRaises(PagesGet(req[r].pages_result))
    /\ req' = [req EXCEPT ![r] = FinalizeExceptResponse(@)]
    /\ audits' = FinalizeExcept(audits, req[r].audit_id)
    /\ Fault(TRUE)
    /\ UNCHANGED <<tasks, job_ready, job_pages, polls,
                   synth_in, synth_utils, synth_batch, run, create_resp, tenant_vars>>

\* One insert of the loop of api/utils.py create_tasks_from_audit.
GetAuditInsertTask(r) ==
    /\ req[r].pc = "tasks"
    /\ LET pages == PagesGet(req[r].pages_result)
           j == NextInsert(pages, req[r].k)
           issue_type == CategoryOrder[j]
       IN  /\ pages /= <<>>
           /\ ~GroupingRaises(pages)
           /\ j /= 0
           /\ BagCardinality(tasks) < MaxTasks
           /\ \E outcome \in InsertOutcomes :
                 /\ Fault(outcome /= "ok")
                 /\ IF outcome = "ok"
                    THEN tasks' = tasks (+) SetToBag({
                            [row |-> TaskData(issue_type, UrlsOf(pages, issue_type),
                                              req[r].audit.campaign_id),
                             audit |-> req[r].audit_id]})
                    ELSE UNCHANGED tasks
           /\ req' = [req EXCEPT ![r].k = j + 1]
    /\ UNCHANGED <<audits, job_ready, job_pages, polls,
                   synth_in, synth_utils, synth_batch, run, create_resp, tenant_vars>>

UpdateData(summary, pages) ==
    [status  |-> "completed",
     results |-> [keys |-> {"summary", "pages"}, summary |-> SummaryGet(summary),
                  pages |-> pages],
     summary |-> SummaryGet(summary)]

ApplyUpdate(row, update_data) ==
    [row EXCEPT !.status = update_data.status, !.results = update_data.results,
                !.summary = update_data.summary]

\* client.table('audits').update(update_data).eq('id', audit_id).execute()
GetAuditUpdate(r) ==
    /\ req[r].pc = "tasks"
    /\ LET pages == PagesGet(req[r].pages_result)
           a == req[r].audit_id
       IN  /\ ~GroupingRaises(pages)
           /\ pages = <<>> \/ NextInsert(pages, req[r].k) = 0
           /\ \E outcome \in InsertOutcomes :
                 /\ Fault(outcome /= "ok")
                 /\ IF outcome = "ok"
                    THEN LET row == ApplyUpdate(audits[a], UpdateData(req[r].summary, pages))
                         IN  /\ audits' = [audits EXCEPT ![a] = row]
                             /\ req' = [req EXCEPT ![r] =
                                           Respond([@ EXCEPT !.finalized = TRUE], row)]
                    ELSE /\ audits' = FinalizeExcept(audits, a)
                         /\ req' = [req EXCEPT ![r] = FinalizeExceptResponse(@)]
    /\ UNCHANGED <<tasks, job_ready, job_pages, polls,
                   synth_in, synth_utils, synth_batch, run, create_resp, tenant_vars>>

Init ==
    /\ audits = <<>>
    /\ tasks = EmptyBag
    /\ job_ready = <<>>
    /\ job_pages = <<>>
    /\ polls = <<>>
    /\ req = [r \in Req |-> IdleFrame]
    /\ IdleSynth
    /\ IdleRun
    /\ IdleCreate
    /\ IdleTenancy

Next ==
    \/ \E c \in CampaignIds : CreateAudit(c)
    \/ \E j \in JobIds : ProviderFinishes(j)
    \/ \E r \in Req, a \in AuditIds : GetAuditSelect(r, a)
    \/ \E r \in Req : GetAuditStatus(r)
    \/ \E r \in Req : GetAuditSummary(r)
    \/ \E r \in Req : GetAuditPages(r)
    \/ \E r \in Req : GetAuditSynthRaises(r)
    \/ \E r \in Req : GetAuditInsertTask(r)
    \/ \E r \in Req : GetAuditUpdate(r)

Spec == Init /\ [][Next]_vars

\* Rows of the tasks table that the finalize of audit a inserted for category c.
TasksFor(a, c) ==
    LET S == {t \in BagToSet(tasks) : t.audit = a /\ CategoryOf(t.row) = c}
    IN  BagCardinality([t \in S |-> tasks[t]])

\* C1: two requests that both went through the finalize of the same audit
\* (each selected it as 'crawling' with the job ready, which only happens when
\* they overlap) leave at most one task per category for it, and both answer 200.
C1_SecondFinalizeIsNoOp ==
    \A r1 \in Req, r2 \in Req :
        ( /\ r1 /= r2
          /\ req[r1].pc = "done" /\ req[r2].pc = "done"
          /\ req[r1].audit_id = req[r2].audit_id
          /\ req[r1].finalized /\ req[r2].finalized )
        => /\ \A c \in Categories : TasksFor(req[r1].audit_id, c) <= 1
           /\ req[r1].resp.code = 200 /\ req[r2].resp.code = 200

\* C4: a get_audit that selects an audit whose status is 'completed' answers
\* at once with the row as it is, inserting no task and leaving the audits
\* table (summary and results included) as it was; no request works on a
\* snapshot that is not 'crawling'.
C4_CompletedIsNoOp ==
    [][\A r \in Req :
          /\ ( /\ req[r].pc \in {"idle", "done"}
               /\ req'[r] /= req[r]
               /\ req'[r].audit_id \in 1..Len(audits)
               /\ audits[req'[r].audit_id].status = "completed" )
             => /\ req'[r].pc = "done"
                /\ req'[r].resp = [code |-> 200, audit |-> audits[req'[r].audit_id]]
                /\ tasks' = tasks
                /\ audits' = audits
          /\ req'[r].pc \in {"status", "summary", "pages", "tasks"}
                => req'[r].audit.status = "crawling"]_vars

C4_Witness ==
    \E r \in Req :
        /\ req[r].pc = "done"
        /\ ~req[r].finalized /\ ~req[r].raised
        /\ req[r].resp.code = 200
        /\ req[r].resp.audit.status = "completed"
        /\ tasks /= EmptyBag

FetchFailed(frame) ==
    \/ frame.pc \in {"pages", "tasks"} /\ ~frame.summary.success
    \/ frame.pc = "tasks" /\ ~frame.pages_result.success

\* C5: a request whose summary or findings fetch answered success = false
\* inserts no task, never writes 'completed', and ends with the audit
\* persisted as 'failed'.
C5_FetchFailureFails ==
    [][\A r \in Req :
          (FetchFailed(req[r]) /\ req'[r] /= req[r])
          => /\ tasks' = tasks
             /\ audits'[req[r].audit_id].status /= "completed"
             /\ req'[r].pc = "done" => audits'[req[r].audit_id].status = "failed"]_vars

StatusRank(status) ==
    CASE status = "pending" -> 0
      [] status = "crawling" -> 1
      [] status = "completed" -> 2
      [] status = "failed" -> 2
      [] OTHER -> 0

\* C8: in every step every audit row stays in the table, its status does not
\* move back, and a 'completed' row stays 'completed'.
C8_StatusOnlyAdvances ==
    [][\A a \in 1..Len(audits) :
          /\ a <= Len(audits')
          /\ StatusRank(audits'[a].status) >= StatusRank(audits[a].status)
          /\ audits[a].status = "completed" => audits'[a].status = "completed"]_vars

C8_Witness ==
    \E r1 \in Req, r2 \in Req :
        /\ req[r1].pc = "done" /\ req[r1].finalized
        /\ req[r2].pc = "done" /\ req[r2].raised
        /\ req[r1].audit_id = req[r2].audit_id
        /\ audits[req[r1].audit_id].status = "completed"

\* C9: the step in which the finalize of a request raises (in the
\* synthesizer or in the update) writes nothing to the audits table, so the
\* row keeps the status it had, and the request answers 200 with the audit
\* as it selected it, status 'crawling'.
C9_RaiseLeavesCrawling ==
    [][\A r \in Req :
          (req[r].pc = "tasks" /\ req'[r].pc = "done" /\ req'[r].raised)
          => /\ audits' = audits
             /\ audits'[req[r].audit_id].status \in {"crawling", "completed"}
             /\ audits'[req[r].audit_id].status = "completed"
                   => audits[req[r].audit_id].status = "completed"
             /\ req'[r].resp.code = 200
             /\ req'[r].resp.audit = req[r].audit
             /\ req'[r].resp.audit.status = "crawling"]_vars

C9_Witness ==
    \E r \in Req :
        /\ req[r].pc = "done" /\ req[r].raised
        /\ req[r].resp.code = 200
        /\ audits[req[r].audit_id].status = "crawling"
        /\ tasks /= EmptyBag

(***************************************************************************)
(* SpecLazy: client 1 asks for the audit over and over; the status         *)
(* checks that found the job not ready are counted.                        *)
(***************************************************************************)
InitLazy ==
    /\ \E pages \in ProviderFindings, c \in CampaignIds :
          /\ audits = <<NewAuditRow(c, 1)>>
          /\ job_pages = <<pages>>
    /\ job_ready = <<FALSE>>
    /\ polls = <<0>>
    /\ tasks = EmptyBag
    /\ req = [r \in Req |-> IdleFrame]
    /\ IdleSynth
    /\ IdleRun
    /\ IdleCreate
    /\ IdleTenancy

NextLazy ==
    \/ ProviderFinishes(1)
    \/ GetAuditSelect(1, 1)
    \/ GetAuditStatus(1)
    \/ GetAuditSummary(1)
    \/ GetAuditPages(1)
    \/ GetAuditSynthRaises(1)
    \/ GetAuditInsertTask(1)
    \/ GetAuditUpdate(1)

SpecLazy == InitLazy /\ [][NextLazy]_vars

\* C7: once the attempt budget of status checks has been answered "not
\* ready", the audit is persisted as 'failed', no longer 'crawling'.
C7_TimeoutPersistsFailed ==
    \A a \in DOMAIN polls :
        polls[a] >= max_attempts => audits[a].status = "failed"

\* The finalize that completed audit a fetched the summary and the findings
\* of its job (the row holds them).
CompletedInFull(a) ==
    LET job == audits[a].dataforseo_task_id
    IN  /\ audits[a].status = "completed"
        /\ audits[a].results.pages = ProviderPages(job, FindingsLimit, TRUE).pages
        /\ audits[a].results.summary = ProviderSummary(job, TRUE).summary

\* C17: one client asks again after a finalize that failed and left the
\* audit 'crawling'; once a retry in which the fetches succeeded has brought
\* the audit to 'completed', no category has more than one task for it.
C17_RetryKeepsOneTaskPerCategory ==
    \A a \in 1..Len(audits) :
        CompletedInFull(a) => \A c \in Categories : TasksFor(a, c) <= 1

(***************************************************************************)
(* SpecBatch: execution/run_audit.py, main and run_audit, one step per     *)
(* provider or store call.                                                 *)
(***************************************************************************)
\* The rows a call inserted, as they are in the table.
RowsOf(inserted, audit) ==
    LET S == {[row |-> inserted[i], audit |-> audit] : i \in 1..Len(inserted)}
    IN  [t \in S |-> Cardinality({i \in 1..Len(inserted) : inserted[i] = t.row})]

\* The result dict of run_audit.
NoResult2 == [success |-> FALSE, error |-> "", task_id |-> 0,
              summary |-> SummaryOf({}), pages_count |-> 0, tasks_created |-> 0]

Failure(error) == [NoResult2 EXCEPT !.error = error]

\* Faulty variant: --dry-run is not looked at.
MainIgnoresDryRun(campaign_id, dry_run) == campaign_id

\* main: campaign_id=args.campaign_id if not args.dry_run else None
\* (None is the empty string here).
MainCampaignId(campaign_id, dry_run) == IF dry_run THEN "" ELSE campaign_id

\* if campaign_id and supabase:
Persists(frame) == frame.campaign_id /= "" /\ frame.supabase

\* The frame of run_audit as main() calls it; args are the command line
\* arguments --campaign-id ("" when omitted) and --dry-run.
NewRun(campaign_id, dry_run, supabase) ==
    [pc |-> "start",
     args |-> [campaign_id |-> campaign_id, dry_run |-> dry_run],
     campaign_id |-> MainCampaignId(campaign_id, dry_run),
     supabase |-> supabase,
     task_id |-> 0, attempt |-> 0, status_checks |-> 0,
     summary |-> NoFetch, pages_result |-> NoPages,
     tasks_created |-> <<>>, result |-> NoResult2]

InitBatch ==
    /\ \E campaign_id \in CampaignIds \cup {""}, dry_run \in BOOLEAN, supabase \in BOOLEAN :
          run = NewRun(campaign_id, dry_run, supabase)
    /\ audits = <<>>
    /\ tasks = EmptyBag
    /\ job_ready = <<>>
    /\ job_pages = <<>>
    /\ polls = <<>>
    /\ req = <<>>
    /\ IdleSynth
    /\ IdleCreate
    /\ IdleTenancy

\* Step 1: result = start_onpage_audit(domain, max_pages)
RunStart ==
    /\ run.pc = "start"
    /\ job_ready = <<>>
    /\ \E submit_ok \in BOOLEAN, pages \in ProviderFindings :
          /\ Fault(~submit_ok)
          /\ IF submit_ok
             THEN /\ job_ready' = Append(job_ready, FALSE)
                  /\ job_pages' = Append(job_pages, pages)
                  /\ run' = [run EXCEPT !.pc = "poll", !.task_id = Len(job_ready) + 1]
             ELSE /\ run' = [run EXCEPT !.pc = "returned",
                                        !.result = Failure("submit error")]
                  /\ UNCHANGED <<job_ready, job_pages>>
    /\ UNCHANGED <<audits, tasks, polls, req, synth_in, synth_utils, synth_batch, create_resp, tenant_vars>>

\* Faulty variant: one iteration too many.
OneMoreAttempt(attempt) == attempt <= max_attempts

\* for attempt in range(max_attempts):
InRange(attempt) == attempt < max_attempts

\* Step 2: one iteration of the poll loop; after the last one the else of
\* the for returns the timeout.
RunPoll ==
    /\ run.pc = "poll"
    /\ InRange(run.attempt)
    /\ IF job_ready[run.task_id]
       THEN run' = [run EXCEPT !.pc = "summary", !.status_checks = @ + 1]
       ELSE IF InRange(run.attempt + 1)
       THEN run' = [run EXCEPT !.attempt = @ + 1, !.status_checks = @ + 1]
       ELSE run' = [run EXCEPT !.attempt = @ + 1, !.status_checks = @ + 1,
                               !.pc = "returned", !.result = Failure("Audit timeout")]
    /\ UNCHANGED <<audits, tasks, job_ready, job_pages, polls, req,
                   synth_in, synth_utils, synth_batch, create_resp, faults, tenant_vars>>

\* Faulty variant: the summary is fetched without waiting for the ready status.
RunSummaryUnpolled ==
    /\ run.pc \in {"poll", "summary"}
    /\ \E ok \in BOOLEAN :
          /\ Fault(~ok)
          /\ LET summary == ProviderSummary(run.task_id, ok)
             IN  run' = IF summary.success
                        THEN [run EXCEPT !.pc = "pages", !.summary = summary]
                        ELSE [run EXCEPT !.pc = "returned", !.summary = summary,
                                         !.result = Failure(summary.error)]
    /\ UNCHANGED <<audits, tasks, job_ready, job_pages, polls, req,
                   synth_in, synth_utils, synth_batch, create_resp, tenant_vars>>

\* Step 3a: summary = get_audit_summary(task_id)
RunSummary ==
    /\ run.pc = "summary"
    /\ \E ok \in BOOLEAN :
          /\ Fault(~ok)
          /\ LET summary == ProviderSummary(run.task_id, ok)
             IN  run' = IF summary.success
                        THEN [run EXCEPT !.pc = "pages", !.summary = summary]
                        ELSE [run EXCEPT !.pc = "returned", !.summary = summary,
                                         !.result = Failure(summary.error)]
    /\ UNCHANGED <<audits, tasks, job_ready, job_pages, polls, req,
                   synth_in, synth_utils, synth_batch, create_resp, tenant_vars>>

\* Step 3b: pages_result = get_page_issues(task_id, limit=100)
RunPages ==
    /\ run.pc = "pages"
    /\ \E ok \in BOOLEAN :
          /\ Fault(~ok)
          /\ LET pages_result == ProviderPages(run.task_id, FindingsLimit, ok)
             IN  run' = IF pages_result.success
                        THEN [run EXCEPT !.pc = "tasks", !.pages_result = pages_result]
                        ELSE [run EXCEPT !.pc = "returned", !.pages_result = pages_result,
                                         !.result = Failure(pages_result.error)]
    /\ UNCHANGED <<audits, tasks, job_ready, job_pages, polls, req,
                   synth_in, synth_utils, synth_batch, create_resp, tenant_vars>>

\* Step 4: tasks_created = create_tasks_from_audit(pages, campaign_id); an
\* exception of an insert leaves run_audit and main.
RunCreateTasks ==
    /\ run.pc = "tasks"
    /\ IF Persists(run)
       THEN \E outcome \in OutcomeMaps :
               LET res == batch_create_tasks_from_audit(
                              PagesGet(run.pages_result), run.campaign_id, outcome)
               IN  /\ tasks' = tasks (+) RowsOf(res.inserted, 0)
                   /\ Fault(res.raised)
                   /\ run' = IF res.raised
                             THEN [run EXCEPT !.pc = "crashed"]
                             ELSE [run EXCEPT !.pc = "save", !.tasks_created = res.created]
       ELSE /\ run' = [run EXCEPT !.pc = "save"]
            /\ UNCHANGED <<tasks, faults>>
    /\ UNCHANGED <<audits, job_ready, job_pages, polls, req,
                   synth_in, synth_utils, synth_batch, create_resp, tenant_vars>>

\* Faulty variant: the row of the run is written as 'crawling'.
CompletedRowCrawling(campaign_id, task_id, summary, pages) ==
    [campaign_id |-> campaign_id, type |-> "technical", status |-> "crawling",
     dataforseo_task_id |-> task_id,
     results |-> [keys |-> {"summary", "pages"}, summary |-> SummaryGet(summary),
                  pages |-> pages],
     summary |-> SummaryGet(summary)]

\* 'status': 'completed', 'results': {'summary': ..., 'pages': pages},
\* 'summary': summary.get('summary', {})
CompletedRow(campaign_id, task_id, summary, pages) ==
    [campaign_id |-> campaign_id, type |-> "technical", status |-> "completed",
     dataforseo_task_id |-> task_id,
     results |-> [keys |-> {"summary", "pages"}, summary |-> SummaryGet(summary),
                  pages |-> pages],
     summary |-> SummaryGet(summary)]

\* Step 5: supabase.table('audits').insert({... 'status': 'completed' ...})
\* and the return of the result.
RunSaveAudit ==
    /\ run.pc = "save"
    /\ LET pages == PagesGet(run.pages_result)
           result == [success |-> TRUE, error |-> "", task_id |-> run.task_id,
                      summary |-> SummaryGet(run.summary),
                      pages_count |-> Len(pages),
                      tasks_created |-> Len(run.tasks_created)]
       IN  IF Persists(run)
           THEN \E outcome \in InsertOutcomes :
                   /\ Fault(outcome /= "ok")
                   /\ IF outcome = "ok"
                      THEN /\ audits' = Append(audits,
                                  CompletedRow(run.campaign_id, run.task_id, run.summary, pages))
                           /\ run' = [run EXCEPT !.pc = "returned", !.result = result]
                      ELSE /\ run' = [run EXCEPT !.pc = "crashed"]
                           /\ UNCHANGED audits
           ELSE /\ run' = [run EXCEPT !.pc = "returned", !.result = result]
                /\ UNCHANGED <<audits, faults>>
    /\ UNCHANGED <<tasks, job_ready, job_pages, polls, req,
                   synth_in, synth_utils, synth_batch, create_resp, tenant_vars>>

NextBatch ==
    \/ RunStart
    \/ \E j \in JobIds : ProviderFinishes(j)
    \/ RunPoll
    \/ RunSummary
    \/ RunPages
    \/ RunCreateTasks
    \/ RunSaveAudit

SpecBatch == InitBatch /\ [][NextBatch]_vars

TimedOut == run.pc = "returned" /\ run.result.error = "Audit timeout"

\* run_audit returned and neither timed out nor met a failing call.
RunSucceeded == run.pc = "returned" /\ ~faults /\ ~TimedOut

\* C6: a run whose status checks were all answered "not ready" ends after
\* exactly 60 of them with success = false and the error 'Audit timeout'; no
\* run makes more than 60 checks, none is still polling after 60, and a run
\* that timed out fetched nothing and wrote nothing.
C6_TimeoutAfterExactly60 ==
    /\ run.status_checks <= 60
    /\ run.pc = "poll" => run.status_checks < 60
    /\ run.attempt = 60 => TimedOut
    /\ TimedOut =>
          /\ ~run.result.success
          /\ run.status_checks = 60
          /\ run.attempt = 60
          /\ run.summary = NoFetch
          /\ run.pages_result = NoPages
          /\ tasks = EmptyBag
          /\ audits = <<>>

C6_Witness == TimedOut /\ run.status_checks = 60

(***************************************************************************)
(* run_audit has no try/except of its own and main() calls it bare, so an  *)
(* exception of a store write inside it ends the process ("crashed").      *)
(***************************************************************************)
Crashed == run.pc = "crashed"

\* C11: no exception of a provider call or of a store write made during
\* run_audit leaves run_audit: the run never ends with an exception that
\* reached main() instead of a structured result.
C11_NoExceptionLeavesRunAudit == ~Crashed

\* The run was started without --campaign-id or with --dry-run.
NoWriteRun == run.args.campaign_id = "" \/ run.args.dry_run

\* C16: without --campaign-id, or with --dry-run even when a campaign id is
\* given, the batch runner writes nothing to the store (no task, no audit
\* row, so no store exception either); the provider steps are still made and
\* the result of a run that met no failure reports success with
\* tasks_created = 0.
C16_DryRunWritesNothing ==
    NoWriteRun =>
       /\ tasks = EmptyBag
       /\ audits = <<>>
       /\ ~Crashed
       /\ run.tasks_created = <<>>
       /\ RunSucceeded =>
             /\ run.result.success
             /\ run.result.tasks_created = 0
             /\ run.status_checks >= 1
             /\ run.summary.success
             /\ run.pages_result.success
             /\ run.result.pages_count = Len(job_pages[run.task_id])

\* A dry run with a campaign id and a configured store fetched the findings
\* of the example and returned.
C16_Witness ==
    /\ run.args.campaign_id = "camp1"
    /\ run.args.dry_run
    /\ run.supabase
    /\ RunSucceeded
    /\ run.result.pages_count = Len(ExamplePages)
    /\ run.result.tasks_created = 0
    /\ tasks = EmptyBag /\ audits = <<>>

(***************************************************************************)
(* SpecFlow: the batch runner and one client of the HTTP handlers work on  *)
(* the same store and the same provider.                                   *)
(***************************************************************************)
InitFlow ==
    /\ \E campaign_id \in CampaignIds \cup {""}, dry_run \in BOOLEAN, supabase \in BOOLEAN :
          run = NewRun(campaign_id, dry_run, supabase)
    /\ audits = <<>>
    /\ tasks = EmptyBag
    /\ job_ready = <<>>
    /\ job_pages = <<>>
    /\ polls = <<>>
    /\ req = [r \in Req |-> IdleFrame]
    /\ IdleSynth
    /\ IdleCreate
    /\ IdleTenancy

NextFlow ==
    \/ \E c \in CampaignIds : CreateAudit(c)
    \/ ProviderFinishes(1)
    \/ GetAuditSelect(1, 1)
    \/ GetAuditStatus(1)
    \/ GetAuditSummary(1)
    \/ GetAuditPages(1)
    \/ GetAuditSynthRaises(1)
    \/ GetAuditInsertTask(1)
    \/ GetAuditUpdate(1)
    \/ RunStart
    \/ RunPoll
    \/ RunSummary
    \/ RunPages
    \/ RunCreateTasks
    \/ RunSaveAudit

SpecFlow == InitFlow /\ [][NextFlow]_vars

\* run_audit returned because the provider rejected the submission.
RunRejected == run.pc = "returned" /\ run.result.error = "submit error"

\* create_audit answered that the provider rejected the submission.
CreateRejected(resp) == resp.error = "Failed to start audit: submit error"

\* C12: when the provider rejects the submission, the error is returned at
\* once (structured failure, 500 for the handler), no audit row is inserted,
\* no job exists to poll or fetch from and the run does nothing more; and
\* no row of the audits table ever has the status 'pending'.
C12_RejectedSubmissionStopsTheJob ==
    /\ [](\A a \in 1..Len(audits) : audits[a].status /= "pending")
    /\ [](RunRejected =>
            /\ ~run.result.success
            /\ run.task_id = 0
            /\ run.status_checks = 0
            /\ run.summary = NoFetch
            /\ run.pages_result = NoPages)
    /\ [][ /\ RunRejected => run' = run
           /\ (~RunRejected /\ RunRejected') =>
                 /\ audits' = audits
                 /\ tasks' = tasks
                 /\ job_ready' = job_ready
           /\ (create_resp' /= create_resp /\ CreateRejected(create_resp')) =>
                 /\ create_resp'.code = 500
                 /\ audits' = audits
                 /\ job_ready' = job_ready
                 /\ req' = req ]_vars

C12_Witness ==
    /\ RunRejected
    /\ CreateRejected(create_resp)
    /\ audits = <<>>

\* The tasks table holds, for the finalize of audit a (0: the batch run),
\* exactly one row per category of pages that has a URL, made of its URLs.
OneTaskPerCategory(a, pages, campaign_id) ==
    /\ \A c \in Categories :
          TasksFor(a, c) = IF c \in NonEmptyCategories(pages) THEN 1 ELSE 0
    /\ \A t \in BagToSet(tasks) :
          t.audit = a => t.row = TaskData(CategoryOf(t.row),
                                          UrlsOf(pages, CategoryOf(t.row)), campaign_id)

\* The two tasks of ExamplePages: the page that is both without a title and
\* a 4xx is in the checklist of both.
ExampleTasks(a) ==
    LET items(t) == [i \in 1..Len(t.row.checklist) |-> t.row.checklist[i].item]
        of(c) == {t \in BagToSet(tasks) : t.audit = a /\ CategoryOf(t.row) = c}
    IN  /\ \A c \in Categories : (of(c) /= {}) <=> (c \in {"missing_title", "broken_pages"})
        /\ \A t \in of("missing_title") : items(t) = <<1, 2, 3>> /\ t.row.title.pages = 3
        /\ \A t \in of("broken_pages") : items(t) = <<1, 4>> /\ t.row.title.pages = 2

\* Client 1 went through a finalize and no call has failed so far.
FinalizeSucceeded == req[1].pc = "done" /\ req[1].finalized /\ ~faults

\* C13: when the submit succeeds, the provider reports ready within the
\* attempt budget and the summary and the findings are fetched (no call
\* failing), the run ends with the audit 'completed' and exactly one task
\* per non-empty category, a page with two flags being in both tasks: for
\* the ten example pages a missing_title task of 3 URLs and a broken_pages
\* task of 2 URLs.
C13_SuccessfulRunCompletes ==
    /\ RunSucceeded =>
          LET pages == job_pages[run.task_id]
          IN  /\ run.result.success
              /\ run.result.pages_count = Len(pages)
              /\ run.status_checks \in 1..max_attempts
              /\ Persists(run) =>
                    /\ Len(audits) = 1
                    /\ audits[1].status = "completed"
                    /\ audits[1].dataforseo_task_id = run.task_id
                    /\ OneTaskPerCategory(0, pages, run.campaign_id)
                    /\ run.result.tasks_created = Cardinality(NonEmptyCategories(pages))
                    /\ pages = ExamplePages => ExampleTasks(0)
    /\ FinalizeSucceeded =>
          LET pages == job_pages[audits[1].dataforseo_task_id]
          IN  /\ audits[1].status = "completed"
              /\ req[1].resp.code = 200
              /\ req[1].resp.audit.status = "completed"
              /\ OneTaskPerCategory(1, pages, audits[1].campaign_id)
              /\ pages = ExamplePages => ExampleTasks(1)

\* The batch run found the job ready on the 4th check and ended with the
\* two tasks of the example.
C13_Witness ==
    /\ RunSucceeded
    /\ Persists(run)
    /\ run.status_checks = 4
    /\ job_pages[run.task_id] = ExamplePages
    /\ run.result.tasks_created = 2
    /\ TasksFor(0, "missing_title") = 1
    /\ TasksFor(0, "broken_pages") = 1

\* The rows of the tasks table inserted for audit a (0: by the batch run).
TasksOf(a) == {t \in BagToSet(tasks) : t.audit = a}

TaskCountOf(a) == BagCardinality([t \in TasksOf(a) |-> tasks[t]])

\* C18: the steps of one run are made in order.  Batch run: the summary is
\* fetched only when a status check has seen the job ready, the findings
\* only after the summary was fetched with success, tasks are inserted only
\* after the findings were fetched with success and before the audit row is
\* written, and the row is written as 'completed' after the task inserts.
\* Handler: the same order inside one get_audit request, the update to
\* 'completed' being made when the insert loop has ended.
C18_StepsInOrder ==
    [][ /\ run'.summary /= run.summary =>
              /\ run.status_checks >= 1
              /\ job_ready[run.task_id]
              /\ run.pages_result = NoPages
        /\ run'.pages_result /= run.pages_result =>
              /\ run.summary.success
              /\ TaskCountOf(0) = 0
        /\ TaskCountOf(0)' /= TaskCountOf(0) =>
              /\ run.pages_result.success
              /\ audits = <<>> /\ audits' = audits
        /\ (run.task_id /= 0 /\ audits' /= audits) =>
              /\ run.pages_result.success
              /\ tasks' = tasks
              /\ audits'[1].status = "completed"
              /\ run.tasks_created = <<>> <=> TaskCountOf(0) = 0
        /\ (req'[1].summary /= req[1].summary /\ req'[1].summary /= NoFetch) =>
              /\ job_ready[req[1].audit.dataforseo_task_id]
              /\ req[1].pages_result = NoPages
        /\ (req'[1].pages_result /= req[1].pages_result /\ req'[1].pages_result /= NoPages) =>
              /\ req[1].summary /= NoFetch
              /\ req[1].k = 0
        /\ TaskCountOf(1)' /= TaskCountOf(1) =>
              /\ req[1].pages_result /= NoPages
              /\ audits[1].status = "crawling" /\ audits' = audits
        /\ (run.task_id = 0 /\ Len(audits) = 1 /\ audits' /= audits) =>
              /\ req[1].pages_result /= NoPages
              /\ req[1].k >= 1
              /\ NextInsert(PagesGet(req[1].pages_result), req[1].k) = 0
              /\ tasks' = tasks
              /\ audits'[1].status = "completed" ]_vars

\* A batch run went through all its steps: ready on the 2nd check, tasks
\* inserted, audit row written, result returned.
C18_Witness ==
    /\ run.pc = "returned"
    /\ run.result.success
    /\ run.status_checks = 2
    /\ TaskCountOf(0) = 2
    /\ Len(audits) = 1 /\ audits[1].status = "completed"

\* C19: every audit row with the status 'completed' carries the provider's
\* summary of its job as the column summary and as results.summary, and the
\* findings fetched for the job as results.pages; none has an empty results
\* mapping.
C19_CompletedCarriesResults ==
    \A a \in 1..Len(audits) :
        audits[a].status = "completed" =>
            LET job == audits[a].dataforseo_task_id
            IN  /\ audits[a].results.keys = {"summary", "pages"}
                /\ audits[a].summary = ProviderSummary(job, TRUE).summary
                /\ audits[a].results.summary = ProviderSummary(job, TRUE).summary
                /\ audits[a].results.pages = ProviderPages(job, FindingsLimit, TRUE).pages

(***************************************************************************)
(* SpecTenancy: organizations, profiles, campaigns and tasks by id.  A     *)
(* null column is the string "null".                                       *)
(***************************************************************************)
UserIds == {"u1", "u2"}

OrgIds == {"org1", "org2", "org3"}

CampaignKeys == {"c1", "c2", "c3"}

TaskIds == {"t1"}

\* The rows of 'profiles' the model starts from: role and organization_id.
ProfileKinds ==
    { [role |-> "admin", organization_id |-> "org1"],
      [role |-> "campaign_manager", organization_id |-> "org1"],
      [role |-> "optimization_specialist", organization_id |-> "org2"],
      [role |-> "viewer", organization_id |-> "null"] }

\* 'user' not in session
NoSession == [logged_in |-> FALSE, role |-> "", organization_id |-> "null"]

\* session['user'] = {'role': profile.data.get('role', 'viewer'),
\*                    'organization_id': profile.data.get('organization_id'), ...}
SessionOf(profile) ==
    [logged_in |-> TRUE, role |-> profile.role, organization_id |-> profile.organization_id]

Answer(handler, user, code) ==
    [NoResponse EXCEPT !.handler = handler, !.user = user, !.code = code]

InitTenancy ==
    /\ \E p \in [UserIds -> ProfileKinds], bipul \in {"u2", "nobody"} :
          profiles = [u \in UserIds |->
                        [role |-> p[u].role, organization_id |-> p[u].organization_id,
                         email_has_bipul |-> (u = bipul)]]
    /\ organizations = [o \in {"org1", "org2"} |-> IF o = "org1" THEN "u1" ELSE "u2"]
    /\ \E k2, k3 \in {"org2", "null"} :
          campaigns = [c \in CampaignKeys |->
                         IF c = "c1" THEN "org1" ELSE IF c = "c2" THEN k2 ELSE k3]
    /\ \E a \in {"u1", "null"} :
          task_table = [t \in TaskIds |->
                          [assigned_to |-> a, status |-> "pending", checklist |-> "unchecked"]]
    /\ session = [u \in UserIds |-> NoSession]
    /\ response = NoResponse
    /\ IdleStore
    /\ IdleSynth
    /\ IdleRun
    /\ IdleCreate

\* Faulty variant: the update without .is_('organization_id', 'null').
AdoptEveryCampaign(rows, org_id) == [c \in DOMAIN rows |-> org_id]

\* admin.table('campaigns').update({'organization_id': org_id})
\*      .is_('organization_id', 'null')
AdoptOrphans(rows, org_id) ==
    [c \in DOMAIN rows |-> IF rows[c] = "null" THEN org_id ELSE rows[c]]

\* The outcomes of one login: the sign-in or the select of the profile
\* raises (401), or one of the three writes of the backfill raises (the
\* inner except logs it and the login goes on), or nothing raises.
LoginOutcomes ==
    {"sign_in_raises", "org_insert_raises", "profile_update_raises",
     "campaign_update_raises", "ok"}

\* if profile.data and not profile.data.get('organization_id'):
NeedsBackfill(profile) == profile.organization_id = "null"

\* POST /api/auth/login of user u.
Login(u) ==
    \E outcome \in LoginOutcomes, org_id \in OrgIds :
        LET profile == profiles[u]
            updated == [profile EXCEPT !.organization_id = org_id, !.role = "admin"]
        IN  /\ UNCHANGED task_table
            /\ IF outcome = "sign_in_raises"
               THEN /\ response' = Answer("login", u, 401)
                    /\ UNCHANGED <<profiles, organizations, campaigns, session>>
               ELSE /\ response' = Answer("login", u, 200)
                    /\ IF ~NeedsBackfill(profile) \/ outcome = "org_insert_raises"
                       THEN /\ session' = [session EXCEPT ![u] = SessionOf(profile)]
                            /\ UNCHANGED <<profiles, organizations, campaigns>>
                       ELSE /\ org_id \notin DOMAIN organizations
                            /\ organizations' =
                                  [o \in DOMAIN organizations \cup {org_id} |->
                                      IF o = org_id THEN u ELSE organizations[o]]
                            /\ IF outcome = "profile_update_raises"
                               THEN /\ session' = [session EXCEPT ![u] = SessionOf(profile)]
                                    /\ UNCHANGED <<profiles, campaigns>>
                               ELSE /\ profiles' = [profiles EXCEPT ![u] = updated]
                                    /\ IF outcome = "campaign_update_raises"
                                       \* 'profile = updated_profile' was not reached
                                       THEN /\ session' = [session EXCEPT ![u] =
                                                              SessionOf(profile)]
                                            /\ UNCHANGED campaigns
                                       ELSE /\ campaigns' = AdoptOrphans(campaigns, org_id)
                                            /\ session' = [session EXCEPT ![u] =
                                                              SessionOf(updated)]
    /\ UNCHANGED <<audits, tasks, job_ready, job_pages, polls, req,
                   synth_in, synth_utils, synth_batch, run, create_resp, faults>>

\* Faulty variant: the query without the filter on the organization.
VisibleToAnyone(user, rows) == DOMAIN rows

\* query.eq('organization_id', user['organization_id']) for non-admins
VisibleTo(user, rows) ==
    IF user.role /= "admin"
    THEN {c \in DOMAIN rows : rows[c] = user.organization_id}
    ELSE DOMAIN rows

\* GET /api/campaigns of user u.
ListCampaigns(u) ==
    /\ LET user == session[u]
       IN  IF ~user.logged_in
           THEN response' = Answer("list_campaigns", u, 401)
           ELSE IF user.role /= "admin" /\ user.organization_id = "null"
           THEN response' = Answer("list_campaigns", u, 200)
           ELSE \E ok \in BOOLEAN :
                   response' = IF ok
                               THEN [Answer("list_campaigns", u, 200) EXCEPT
                                        !.queried = TRUE,
                                        !.campaigns = VisibleTo(user, campaigns)]
                               ELSE [Answer("list_campaigns", u, 500) EXCEPT
                                        !.queried = TRUE]
    /\ UNCHANGED <<profiles, organizations, campaigns, task_table, session>>
    /\ UNCHANGED <<audits, tasks, job_ready, job_pages, polls, req,
                   synth_in, synth_utils, synth_batch, run, create_resp, faults>>

\* user['role'] in ['admin', 'campaign_manager']
Privileged(user) == user.role \in {"admin", "campaign_manager"}

\* Faulty variant: the permission check left out.
MayUpdateAnyTask(user, uid, task) == TRUE

\* The permission check of update_task on the row it has read.
MayUpdate(user, uid, task) == Privileged(user) \/ task.assigned_to = uid

\* The keys of update_data.
TaskUpdateData(user, data) ==
    {k \in {"status", "checklist"} : data[k] /= "absent"}
       \cup (IF data["assigned_to"] /= "absent" /\ Privileged(user)
             THEN {"assigned_to"} ELSE {})

\* The JSON bodies of PUT /api/tasks/<task_id>: a key is absent or has a value.
TaskBodies ==
    [status : {"absent", "completed"}, checklist : {"absent", "checked"},
     assigned_to : {"absent", "u2"}]

\* A task id with no row.
MissingTask == "t9"

\* PUT /api/tasks/<task_id> of user u.
UpdateTask(u, task_id, data) ==
    /\ LET user == session[u]
           answer(code) == [Answer("update_task", u, code) EXCEPT !.task = task_id]
       IN  IF ~user.logged_in
           THEN /\ response' = answer(401)
                /\ UNCHANGED task_table
           ELSE IF task_id \notin DOMAIN task_table
           \* .single() raises on no row, or the row comes back empty
           THEN /\ \E code \in {404, 500} : response' = answer(code)
                /\ UNCHANGED task_table
           ELSE \E raised \in {"select", "update", "nothing"} :
                  LET task == task_table[task_id]
                      keys == TaskUpdateData(user, data)
                  IN  IF raised = "select"
                      THEN /\ response' = answer(500)
                           /\ UNCHANGED task_table
                      ELSE IF ~MayUpdate(user, u, task)
                      THEN /\ response' = answer(403)
                           /\ UNCHANGED task_table
                      ELSE IF raised = "update"
                      THEN /\ response' = answer(500)
                           /\ UNCHANGED task_table
                      ELSE /\ response' = answer(200)
                           /\ task_table' = [task_table EXCEPT ![task_id] =
                                 [k \in DOMAIN task |->
                                     IF k \in keys THEN data[k] ELSE task[k]]]
    /\ UNCHANGED <<profiles, organizations, campaigns, session>>
    /\ UNCHANGED <<audits, tasks, job_ready, job_pages, polls, req,
                   synth_in, synth_utils, synth_batch, run, create_resp, faults>>

\* The profiles admin_fix.py may take as the main user: the first whose
\* email contains 'bipul', else the first that has an organization_id, in
\* the order the select returns the rows.
AdminFixTargets(rows) ==
    LET named == {u \in DOMAIN rows : rows[u].email_has_bipul}
    IN  IF named /= {} THEN named
        ELSE {u \in DOMAIN rows : rows[u].organization_id /= "null"}

\* One run of admin_fix.py; the code of the answer is its exit status.
AdminFix ==
    /\ \E raised \in {"select", "update", "nothing"} :
          IF raised = "select" \/ AdminFixTargets(profiles) = {}
          THEN /\ response' = Answer("admin_fix", "none", 1)
               /\ UNCHANGED campaigns
          ELSE \E target \in AdminFixTargets(profiles) :
                  LET org_id == profiles[target].organization_id
                  IN  IF org_id = "null"
                      THEN /\ response' = Answer("admin_fix", "none", 1)
                           /\ UNCHANGED campaigns
                      ELSE IF \A c \in DOMAIN campaigns : campaigns[c] /= "null"
                      THEN /\ response' = Answer("admin_fix", "none", 0)
                           /\ UNCHANGED campaigns
                      ELSE IF raised = "update"
                      THEN /\ response' = Answer("admin_fix", "none", 1)
                           /\ UNCHANGED campaigns
                      ELSE /\ response' = Answer("admin_fix", "none", 0)
                           /\ campaigns' = AdoptOrphans(campaigns, org_id)
    /\ UNCHANGED <<profiles, organizations, task_table, session>>
    /\ UNCHANGED <<audits, tasks, job_ready, job_pages, polls, req,
                   synth_in, synth_utils, synth_batch, run, create_resp, faults>>

NextTenancy ==
    \/ AdminFix
    \/ \E u \in UserIds : Login(u)
    \/ \E u \in UserIds : ListCampaigns(u)
    \/ \E u \in UserIds, t \in TaskIds \cup {MissingTask}, data \in TaskBodies :
          UpdateTask(u, t, data)

SpecTenancy == InitTenancy /\ [][NextTenancy]_vars

\* C24: list_campaigns never returns to a non-admin a campaign of another
\* organization: a non-admin whose session has an organization_id gets only
\* campaigns whose organization_id equals it (which is also the one of the
\* user's profile), and a non-admin without organization_id gets the empty
\* list with status 200 and without any query of the campaigns.
C24_ListCampaignsTenantIsolation ==
    (response.handler = "list_campaigns" /\ session[response.user].logged_in
        /\ session[response.user].role /= "admin")
    => LET user == session[response.user]
       IN  /\ \A c \in response.campaigns :
                /\ campaigns[c] = user.organization_id
                /\ campaigns[c] /= "null"
                /\ profiles[response.user].role /= "admin"
                      => campaigns[c] = profiles[response.user].organization_id
           /\ (user.organization_id /= "null" /\ response.code = 200)
                => response.campaigns =
                      {c \in CampaignKeys : campaigns[c] = user.organization_id}
           /\ user.organization_id = "null"
                => /\ response.campaigns = {}
                   /\ ~response.queried
                   /\ response.code = 200

\* A non-admin of org2 lists the campaigns while another organization has a
\* campaign and one campaign is an orphan: only org2's campaign is returned.
C24_Witness ==
    /\ response.handler = "list_campaigns"
    /\ response.code = 200
    /\ session[response.user].role = "optimization_specialist"
    /\ session[response.user].organization_id = "org2"
    /\ response.campaigns = {"c2"}
    /\ campaigns["c1"] = "org1"
    /\ campaigns["c3"] = "null"

====
